---- MODULE Spec2Model ----
(***************************************************************************)
(* hiercmd: a hierarchical command-line dispatcher (src/src/lib.rs) and    *)
(* its table builder (src/src/table.rs).                                   *)
(*                                                                         *)
(* The state is one process run: the argument vector, the Level owned by   *)
(* the handler that is executing, the chain of handlers suspended in       *)
(* Selection::run, what has been written to the two output streams and the *)
(* exit status.  A handler is any sequence of declaration calls on its     *)
(* Level followed by args!, no_args! or sel!(..).run().                    *)
(*                                                                         *)
(* Spec explores the dispatcher over families of handlers and command      *)
(* lines; TableSpec explores a TableBuilder, the Table built from it and   *)
(* Table::output over families of columns, lists and rows; FairSpec is     *)
(* Spec with handlers that run to completion.                              *)
(***************************************************************************)
EXTENDS Integers, Sequences, FiniteSets, TLC

VARIABLES
    dom,        \* the alphabets the handlers and the command line draw from
    argv,       \* std::env::args_os().skip(1)
    chain,      \* paths of the handlers suspended in Selection::run().await
    level,      \* the Level of the running handler
    pc,         \* where the running handler is
    res,        \* the getopts Matches of the last parse() (local `res`)
    sel,        \* the Selection held by the running handler
    arguments,  \* the table handed back in Arguments by args!/no_args!
    how,        \* the branch by which the last library call ended
    asked_lazy, \* the argument of the last lazy_column_validation() on the Level
    ret,        \* the Result of the handler that has returned
    stdout,     \* lines printed with print!/println!
    stderr,     \* lines printed with eprint!/eprintln!
    exit,       \* -1 while the process runs, then its exit status
    tdom,       \* the columns, lists and rows a table is made from
    tb,         \* a TableBuilder being configured
    tbl,        \* the Table built from it, with its rows
    rendered    \* what the last Table::output() on it came to

lvars == <<dom, argv, chain, level, pc, res, sel, arguments, how, asked_lazy,
           ret, stdout, stderr, exit>>

tvars == <<tdom, tb, tbl, rendered>>

vars == <<dom, argv, chain, level, pc, res, sel, arguments, how, asked_lazy,
          ret, stdout, stderr, exit, tdom, tb, tbl, rendered>>

-----------------------------------------------------------------------------
(* Bounds of the exploration.                                              *)

MaxArgs == 3      \* longest argument vector
MaxCols == 2      \* add_column calls per level
MaxGroups == 1    \* mutually_exclusive calls per level
MaxRows == 3      \* add_row calls per table

-----------------------------------------------------------------------------
(* Option<T>: None is the empty sequence, Some(x) the one-element one.     *)

None == <<>>
Some(x) == <<x>>

RECURSIVE Join(_, _)
Join(items, sep) ==
    IF items = <<>> THEN ""
    ELSE IF Len(items) = 1 THEN items[1]
    ELSE items[1] \o sep \o Join(Tail(items), sep)

RECURSIVE Spaces(_)
Spaces(n) == IF n <= 0 THEN "" ELSE " " \o Spaces(n - 1)

\* format!("{:<w$}", s)
PadRight(s, w) == s \o Spaces(w - Len(s))

SeqRange(s) == {s[i] : i \in 1..Len(s)}

RECURSIVE SeqsUpTo(_, _)
SeqsUpTo(S, n) ==
    IF n = 0 THEN {<<>>}
    ELSE LET shorter == SeqsUpTo(S, n - 1)
         IN shorter \cup {Append(s, x) : s \in {t \in shorter : Len(t) = n - 1}, x \in S}

-----------------------------------------------------------------------------
(* OptionPair and its Display.                                             *)

Pair(short, long) == [short |-> short, long |-> long]

has_short(op) == op.short # ""
has_long(op) == op.long # ""

Display(op) ==
    IF ~has_short(op) THEN "--" \o op.long
    ELSE IF ~has_long(op) THEN "-" \o op.short
    ELSE "-" \o op.short \o " (--" \o op.long \o ")"

-----------------------------------------------------------------------------
(* The option tokenizer the Level delegates to: getopts::Options::parse    *)
(* over the options the Level has declared, in the parsing style chosen by *)
(* Level::new_sub.                                                         *)

\* getopts has two parsing styles; new_sub chooses StopAtFirstFree.  Under
\* FloatingFrees the free arguments may come between the options.
ParsingStyleFloatingFrees == "FloatingFrees"
ParsingStyle == "StopAtFirstFree"

\* One declared option: an optflag takes no argument, an optopt takes one.
Opt(short, long, hasarg) == [short |-> short, long |-> long, hasarg |-> hasarg]

LexFree == [kind |-> "free", name |-> "", attached |-> None, chars |-> <<>>, rests |-> <<>>]
LexLong(name, attached) ==
    [kind |-> "long", name |-> name, attached |-> attached, chars |-> <<>>, rests |-> <<>>]
LexShort(chars, rests) ==
    [kind |-> "short", name |-> "", attached |-> None, chars |-> chars, rests |-> rests]

\* The shape of an argument: "--" ends the options, "--name[=value]" is a
\* long option, "-abc" a run of short options (rests[j] is what follows the
\* j-th letter in the argument), anything else is free.
Lex(raw) ==
    CASE raw = "--" -> [LexFree EXCEPT !.kind = "end"]
      [] raw = "--help" -> LexLong("help", None)
      [] raw = "--first=v" -> LexLong("first", Some("v"))
      [] raw = "--second=v" -> LexLong("second", Some("v"))
      [] raw = "--second" -> LexLong("second", None)
      [] raw = "-x" -> LexShort(<<"x">>, <<"">>)
      [] raw = "-av" -> LexShort(<<"a", "v">>, <<"v", "">>)
      [] raw = "-cv" -> LexShort(<<"c", "v">>, <<"v", "">>)
      [] raw = "-c" -> LexShort(<<"c">>, <<"">>)
      [] raw = "-o" -> LexShort(<<"o">>, <<"">>)
      [] raw = "-s" -> LexShort(<<"s">>, <<"">>)
      [] raw = "-S" -> LexShort(<<"S">>, <<"">>)
      [] raw = "-sname" ->
            LexShort(<<"s", "n", "a", "m", "e">>, <<"name", "ame", "me", "e", "">>)
      [] raw = "-Sname" ->
            LexShort(<<"S", "n", "a", "m", "e">>, <<"name", "ame", "me", "e", "">>)
      [] raw = "-SId,name" ->
            LexShort(<<"S", "I", "d", ",", "n", "a", "m", "e">>,
                     <<"Id,name", "d,name", ",name", "name", "ame", "me", "e", "">>)
      [] raw = "-H" -> LexShort(<<"H">>, <<"">>)
      [] raw = "-p" -> LexShort(<<"p">>, <<"">>)
      [] OTHER -> LexFree

\* A one-letter name is a short name, a longer one a long name.
find_opt(opts, nm) ==
    LET hits == {i \in 1..Len(opts) :
                    IF Len(nm) = 1 THEN opts[i].short = nm ELSE opts[i].long = nm}
    IN IF hits = {} THEN 0 ELSE CHOOSE i \in hits : \A j \in hits : i <= j

OptName(o) == IF o.long # "" THEN o.long ELSE o.short

NoMatches == [opts |-> <<>>, vals |-> <<>>, free |-> <<>>]

TokFail(msg) == [ok |-> FALSE, fail |-> msg, matches |-> NoMatches]

Push(vals, id, v) == [vals EXCEPT ![id] = Append(@, v)]

\* The letters of one "-abc" argument: flags are recorded as they come, the
\* first letter that takes an argument takes the rest of the argument.
RECURSIVE Shorts(_, _, _, _)
Shorts(opts, lx, j, vals) ==
    IF j > Len(lx.chars)
    THEN [ok |-> TRUE, fail |-> "", vals |-> vals, name |-> None, i_arg |-> None]
    ELSE LET ch == lx.chars[j]
             id == find_opt(opts, ch)
         IN IF id = 0
            THEN [ok |-> FALSE, fail |-> "Unrecognized option: '" \o ch \o "'",
                  vals |-> vals, name |-> None, i_arg |-> None]
            ELSE IF opts[id].hasarg = "Yes"
            THEN [ok |-> TRUE, fail |-> "", vals |-> vals, name |-> Some(ch),
                  i_arg |-> IF lx.rests[j] # "" THEN Some(lx.rests[j]) ELSE None]
            ELSE Shorts(opts, lx, j + 1, Push(vals, id, ""))

\* No option may be given more than once (optflag and optopt).
Occurrences(opts, vals, free) ==
    LET dup == {i \in 1..Len(opts) : Len(vals[i]) > 1}
    IN IF dup # {}
       THEN TokFail("Option '" \o OptName(opts[CHOOSE i \in dup : \A j \in dup : i <= j])
                    \o "' given more than once")
       ELSE [ok |-> TRUE, fail |-> "",
             matches |-> [opts |-> opts, vals |-> vals, free |-> free]]

RECURSIVE Scan(_, _, _, _, _)
Scan(opts, args, i, vals, free) ==
    IF i > Len(args) THEN Occurrences(opts, vals, free)
    ELSE
    LET cur == args[i]
        lx == Lex(cur)
    IN
    IF lx.kind = "free" THEN
        IF ParsingStyle = "StopAtFirstFree"
        THEN Occurrences(opts, vals, free \o SubSeq(args, i, Len(args)))
        ELSE Scan(opts, args, i + 1, vals, Append(free, cur))
    ELSE IF lx.kind = "end" THEN
        Occurrences(opts, vals, free \o SubSeq(args, i + 1, Len(args)))
    ELSE
    LET sh == IF lx.kind = "short" THEN Shorts(opts, lx, 1, vals)
              ELSE [ok |-> TRUE, fail |-> "", vals |-> vals,
                    name |-> Some(lx.name), i_arg |-> lx.attached]
    IN
    IF ~sh.ok THEN TokFail(sh.fail)
    ELSE IF sh.name = None THEN Scan(opts, args, i + 1, sh.vals, free)
    ELSE
    LET nm == sh.name[1]
        id == find_opt(opts, nm)
    IN
    IF id = 0 THEN TokFail("Unrecognized option: '" \o nm \o "'")
    ELSE IF opts[id].hasarg = "No" THEN
        IF sh.i_arg # None
        THEN TokFail("Option '" \o nm \o "' does not take an argument")
        ELSE Scan(opts, args, i + 1, Push(sh.vals, id, ""), free)
    ELSE IF sh.i_arg # None THEN
        Scan(opts, args, i + 1, Push(sh.vals, id, sh.i_arg[1]), free)
    ELSE IF i + 1 <= Len(args) THEN
        Scan(opts, args, i + 2, Push(sh.vals, id, args[i + 1]), free)
    ELSE TokFail("Argument to option '" \o nm \o "' missing")

\* Options::parse
Tokenize(opts, args) == Scan(opts, args, 1, [i \in 1..Len(opts) |-> <<>>], <<>>)

\* Matches::opt_present and Matches::opt_str
opt_present(m, nm) == m.vals[find_opt(m.opts, nm)] # <<>>

opt_str(m, nm) ==
    LET v == m.vals[find_opt(m.opts, nm)]
    IN IF v = <<>> THEN None ELSE Some(v[1])

-----------------------------------------------------------------------------
(* TableBuilder (src/src/table.rs).                                        *)

Column(name, width, default) == [name |-> name, width |-> width, default |-> default]

SortOrder(column, ascending) == [column |-> column, ascending |-> ascending]

TableBuilderDefault ==
    [header |-> TRUE, tabsep |-> FALSE, parseable |-> FALSE,
     outputs |-> <<>>, output_filter |-> None, sort_order |-> None]

\* list.split(',')
Split(list) ==
    CASE list = "name,bogus" -> <<"name", "bogus">>
      [] list = "Id,name" -> <<"Id", "name">>
      [] list = "id,name" -> <<"id", "name">>
      [] list = "name,id" -> <<"name", "id">>
      [] OTHER -> <<list>>

\* col.trim().to_lowercase()
to_lowercase(col) ==
    CASE col = "NAME" -> "name"
      [] col = "Id" -> "id"
      [] col = "-H" -> "-h"
      [] col = "-S" -> "-s"
      [] OTHER -> col

\* The strings of the model in the byte order Vec<String>::sort() uses.
ByteOrder ==
    <<"--", "--first=v", "--help", "--second", "--second=v", "-H", "-S", "-av",
      "-c", "-cv", "-h", "-o", "-p", "-s", "-x", "Id", "NAME", "bogus", "id",
      "list", "ls", "name", "v", "zz">>

Rank(s) ==
    IF \E i \in 1..Len(ByteOrder) : ByteOrder[i] = s
    THEN CHOOSE i \in 1..Len(ByteOrder) : ByteOrder[i] = s
    ELSE Len(ByteOrder) + 1

RECURSIVE Insert(_, _)
Insert(sorted, s) ==
    IF sorted = <<>> THEN <<s>>
    ELSE IF Rank(s) < Rank(sorted[1]) THEN <<s>> \o sorted
    ELSE <<sorted[1]>> \o Insert(Tail(sorted), s)

RECURSIVE Sort(_)
Sort(names) ==
    IF names = <<>> THEN <<>>
    ELSE Insert(Sort(SubSeq(names, 1, Len(names) - 1)), names[Len(names)])

NormalizedList(list) == [i \in 1..Len(Split(list)) |-> to_lowercase(Split(list)[i])]

output_from_list(t, list) ==
    IF list = None THEN t
    ELSE [t EXCEPT !.output_filter = Some(NormalizedList(list[1]))]

sort_from_list_asc(t, list) ==
    IF list = None THEN t
    ELSE [t EXCEPT !.sort_order =
            Some([i \in 1..Len(NormalizedList(list[1])) |->
                    SortOrder(NormalizedList(list[1])[i], TRUE)])]

sort_from_list_desc(t, list) ==
    IF list = None THEN t
    ELSE [t EXCEPT !.sort_order =
            Some([i \in 1..Len(NormalizedList(list[1])) |->
                    SortOrder(NormalizedList(list[1])[i], FALSE)])]

table_add_column(t, name, width, default) ==
    [t EXCEPT !.outputs = Append(@, Column(name, width, default))]

show_header(t, show) == [t EXCEPT !.header = show]
tab_separated(t, tabsep) == [t EXCEPT !.tabsep = tabsep]
parseable(t, p) == [t EXCEPT !.parseable = p]

column_names(t) == Sort([i \in 1..Len(t.outputs) |-> t.outputs[i].name])

missing_column_names(t) ==
    IF t.output_filter # None
    THEN LET Undeclared(n) == ~\E i \in 1..Len(t.outputs) : t.outputs[i].name = n
         IN Sort(SelectSeq(t.output_filter[1], Undeclared))
    ELSE <<>>

-----------------------------------------------------------------------------
(* Table (src/src/table.rs): rows of typed values and their rendering.     *)
(* Strings stand for values without tabs and without white space at their  *)
(* ends; numbers are below 2^31.                                           *)

ValueS(s) == [kind |-> "S", s |-> s, n |-> 0]
ValueU(n) == [kind |-> "U", s |-> "", n |-> n]
ValueB(n) == [kind |-> "B", s |-> "", n |-> n]
ValueAge(secs) == [kind |-> "Age", s |-> "", n |-> secs]

\* TableBuilder::build
build(t) ==
    [header |-> t.header, tabsep |-> t.tabsep, parseable |-> t.parseable,
     outputs |-> t.outputs, output_filter |-> t.output_filter,
     sort_order |-> t.sort_order, data |-> <<>>]

\* Table::add_row with the row put in front.
add_row_front(t, row) == [t EXCEPT !.data = <<row>> \o @]
add_row(t, row) == [t EXCEPT !.data = Append(@, row)]

\* row.data.get(name)
Has(row, name) == name \in DOMAIN row.data

Digit(d) ==
    CASE d = 0 -> "0" [] d = 1 -> "1" [] d = 2 -> "2" [] d = 3 -> "3" [] d = 4 -> "4"
      [] d = 5 -> "5" [] d = 6 -> "6" [] d = 7 -> "7" [] d = 8 -> "8" [] d = 9 -> "9"

\* format!("{}", n)
RECURSIVE ToStr(_)
ToStr(n) == IF n < 10 THEN Digit(n) ELSE ToStr(n \div 10) \o Digit(n % 10)

\* format!("{:2}", n) and format!("{:02}", n)
Pad2Space(n) == IF n < 10 THEN " " \o ToStr(n) ELSE ToStr(n)
Pad2Zero(n) == IF n < 10 THEN "0" \o ToStr(n) ELSE ToStr(n)

KiB == 1024
MiB == 1024 * 1024
GiB == 1024 * 1024 * 1024

\* format!("{:.02}", b as f64 / unit as f64) for a unit that is a power of
\* 1024: the quotient is exact in f64 and is rounded to hundredths (no value
\* explored lies halfway between two hundredths).
Fixed2(b, unit) ==
    LET rem == b % unit
        hi == rem \div 1024
        lo == rem % 1024
        unit1 == unit \div 1024
        hundredths == (hi * 200 + (lo * 200) \div 1024 + unit1) \div (2 * unit1)
        total == (b \div unit) * 100 + hundredths
    IN ToStr(total \div 100) \o "." \o Pad2Zero(total % 100)

bytes_cell(b, exact) ==
    IF ~exact /\ b > GiB THEN Fixed2(b, GiB) \o "G"
    ELSE IF ~exact /\ b > MiB THEN Fixed2(b, MiB) \o "M"
    ELSE IF ~exact /\ b > KiB THEN Fixed2(b, KiB) \o "K"
    ELSE ToStr(b)

MINUTE == 60
HOUR == 60 * MINUTE
DAY == 24 * HOUR
YEAR == 365 * DAY
MONTH == 30 * DAY

\* d.as_secs() >= unit, and the comparison a strict one.
more_than(secs, unit) == secs > unit
at_least(secs, unit) == secs >= unit

age_cell(secs, exact) ==
    IF exact THEN ToStr(secs)
    ELSE IF at_least(secs, YEAR) THEN
        LET years == secs \div YEAR
            months == (secs - YEAR * years) \div MONTH
        IN Pad2Space(years) \o "y" \o Pad2Zero(months) \o "M"
    ELSE IF at_least(secs, 99 * DAY) THEN
        LET months == secs \div MONTH
            days == (secs - MONTH * months) \div DAY
        IN Pad2Space(months) \o "M" \o Pad2Zero(days) \o "d"
    ELSE IF at_least(secs, DAY) THEN
        LET days == secs \div DAY
            hours == (secs - DAY * days) \div HOUR
        IN Pad2Space(days) \o "d" \o Pad2Zero(hours) \o "h"
    ELSE IF at_least(secs, HOUR) THEN
        LET hours == secs \div HOUR
            mins == (secs - HOUR * hours) \div MINUTE
        IN Pad2Space(hours) \o "h" \o Pad2Zero(mins) \o "m"
    ELSE IF at_least(secs, MINUTE) THEN
        LET mins == secs \div MINUTE
            secs2 == secs - MINUTE * mins
        IN Pad2Space(mins) \o "m" \o Pad2Zero(secs2) \o "s"
    ELSE ToStr(secs) \o "s"

\* The text of one value.
cell(val, exact) ==
    CASE val.kind = "S" -> val.s
      [] val.kind = "U" -> ToStr(val.n)
      [] val.kind = "B" -> bytes_cell(val.n, exact)
      [] val.kind = "Age" -> age_cell(val.n, exact)

\* col.name.to_uppercase()
to_uppercase(name) ==
    CASE name = "id" -> "ID"
      [] name = "Id" -> "ID"
      [] name = "name" -> "NAME"
      [] name = "size" -> "SIZE"
      [] name = "age" -> "AGE"
      [] OTHER -> name

\* line.trim_end() of the cells laid out with format!("{:width$} ", ..):
\* the padding after the last cell that is not empty goes.
RECURSIVE padded_line(_, _)
padded_line(cells, widths) ==
    IF cells = <<>> THEN ""
    ELSE IF cells[Len(cells)] = ""
    THEN padded_line(SubSeq(cells, 1, Len(cells) - 1), widths)
    ELSE Join([i \in 1..Len(cells) |->
                 IF i < Len(cells) THEN PadRight(cells[i], widths[i]) \o " "
                 ELSE cells[i]], "")

format_line(cells, widths, tabsep) ==
    IF tabsep THEN Join(cells, "\t") ELSE padded_line(cells, widths)

\* The comparison of two values of one column (the match in the closure
\* given to sort_by); values of different shapes panic.
cmp_values(a, b, ascending) ==
    LET x == IF a.kind = "S" THEN Rank(a.s) ELSE a.n
        y == IF b.kind = "S" THEN Rank(b.s) ELSE b.n
    IN IF a.kind # b.kind THEN "Datums in a column must be same shape"
       ELSE IF x = y THEN "Equal"
       ELSE IF (x < y) = ascending THEN "Less"
       ELSE "Greater"

\* The closure given to sort_by: the sort keys in turn, from the k-th on.
RECURSIVE compare(_, _, _, _)
compare(a, b, order, k) ==
    IF k > Len(order) THEN "Equal"
    ELSE IF ~Has(a, order[k].column) \/ ~Has(b, order[k].column) THEN "sort value"
    ELSE LET c == cmp_values(a.data[order[k].column], b.data[order[k].column],
                             order[k].ascending)
         IN IF c = "Equal" THEN compare(a, b, order, k + 1) ELSE c

Ordering == {"Less", "Equal", "Greater"}

Sorted(rows) == [panic |-> None, rows |-> rows]
SortPanic(msg) == [panic |-> Some(msg), rows |-> <<>>]

\* One insertion of the stable sort: the row moves left past the rows it
\* compares Less than.
RECURSIVE insert_tail(_, _, _)
insert_tail(sorted, row, order) ==
    IF sorted = <<>> THEN Sorted(<<row>>)
    ELSE LET last == sorted[Len(sorted)]
             c == compare(row, last, order, 1)
         IN IF c \notin Ordering THEN SortPanic(c)
            ELSE IF c = "Less"
            THEN LET rest == insert_tail(SubSeq(sorted, 1, Len(sorted) - 1), row, order)
                 IN IF rest.panic # None THEN rest
                    ELSE Sorted(Append(rest.rows, last))
            ELSE Sorted(Append(sorted, row))

RECURSIVE sort_prefix(_, _, _)
sort_prefix(data, n, order) ==
    IF n = 0 THEN Sorted(<<>>)
    ELSE LET before == sort_prefix(data, n - 1, order)
         IN IF before.panic # None THEN before
            ELSE insert_tail(before.rows, data[n], order)

Reverse(rows) == [i \in 1..Len(rows) |-> rows[Len(rows) + 1 - i]]

\* A descending sort done as the ascending sort turned around.
sort_by_reversing(data, order) ==
    IF order # <<>> /\ \A k \in 1..Len(order) : ~order[k].ascending
    THEN LET up == sort_prefix(data, Len(data),
                        [k \in 1..Len(order) |-> SortOrder(order[k].column, TRUE)])
         IN IF up.panic # None THEN up ELSE Sorted(Reverse(up.rows))
    ELSE sort_prefix(data, Len(data), order)

\* self.data.sort_by(..): a stable sort; slices this short are sorted by
\* insertion.
sort_by(data, order) == sort_prefix(data, Len(data), order)

\* The panics a sort may meet: which pairs of rows are compared, beyond the
\* insertion sort above, is left to the standard library.
sort_panics(data, order) ==
    {compare(data[i], data[j], order, 1) : i, j \in 1..Len(data)} \ Ordering

\* The first declared column of that name (0: none).
find_column(outputs, n) ==
    LET hits == {i \in 1..Len(outputs) : outputs[i].name = n}
    IN IF hits = {} THEN 0 ELSE CHOOSE i \in hits : \A j \in hits : i <= j

\* The output filter taken as a set of names over the declared columns.
filter_columns_declared_order(t) ==
    LET Chosen(i) ==
            IF t.output_filter # None
            THEN t.outputs[i].name \in SeqRange(t.output_filter[1])
            ELSE t.outputs[i].default
    IN SelectSeq([i \in 1..Len(t.outputs) |-> i], Chosen)

\* The columns to render, by their place among the declared ones (0: the
\* find(..) of a name that is not declared).
filter_columns(t) ==
    IF t.output_filter # None
    THEN [i \in 1..Len(t.output_filter[1]) |-> find_column(t.outputs, t.output_filter[1][i])]
    ELSE LET Default(i) == t.outputs[i].default
         IN SelectSeq([i \in 1..Len(t.outputs) |-> i], Default)

header_line(t, filter) ==
    format_line([i \in 1..Len(filter) |-> to_uppercase(t.outputs[filter[i]].name)],
                [i \in 1..Len(filter) |-> t.outputs[filter[i]].width], t.tabsep)

row_line(t, filter, row) ==
    format_line([i \in 1..Len(filter) |-> cell(row.data[t.outputs[filter[i]].name],
                                              t.parseable)],
                [i \in 1..Len(filter) |-> t.outputs[filter[i]].width], t.tabsep)

Rendered(text, rows) == [kind |-> "ok", text |-> text, msg |-> "", data |-> rows]
Panicked(msg, rows) == [kind |-> "panic", text |-> <<>>, msg |-> msg, data |-> rows]

\* Table::output once the rows are sorted.
render(t, rows, filter) ==
    IF \E i \in 1..Len(filter) : filter[i] = 0
    THEN Panicked("called Option::unwrap() on a None value", rows)
    ELSE IF \E r \in 1..Len(rows), i \in 1..Len(filter) :
                ~Has(rows[r], t.outputs[filter[i]].name)
    THEN Panicked("output value", rows)
    ELSE Rendered((IF t.header THEN <<header_line(t, filter)>> ELSE <<>>)
                    \o [r \in 1..Len(rows) |-> row_line(t, filter, rows[r])], rows)

sorted_output(t, sorted) ==
    IF sorted.panic # None THEN Panicked(sorted.panic[1], t.data)
    ELSE render(t, sorted.rows, filter_columns(t))

\* Table::output: what it may return or panic with.
output(t) ==
    IF t.sort_order = None THEN {render(t, t.data, filter_columns(t))}
    ELSE {sorted_output(t, sort_by(t.data, t.sort_order[1]))}
            \cup {Panicked(m, t.data) : m \in sort_panics(t.data, t.sort_order[1])}

-----------------------------------------------------------------------------
(* Level (src/src/lib.rs).                                                 *)

CommandInfo(name, alias, desc, visible) ==
    [name |-> name, alias |-> alias, desc |-> desc, func |-> name, visible |-> visible]

new_sub(names, private, args) ==
    [names |-> names,
     usage_args |-> Some("[ARGS...]"),
     usage_opts |-> FALSE,
     args |-> args,
     commands |-> <<>>,
     options |-> <<Opt("", "help", "No")>>,
     options_required |-> <<>>,
     options_mutex |-> <<>>,
     table |-> None,
     lazy_columns |-> FALSE,
     private |-> private]

\* What is left in a handler's variable once its Level has been moved away
\* (a Level in use always has its --help option).
Moved == [new_sub(<<>>, 0, None) EXCEPT !.options = <<>>]
IsMoved(l) == l.options = <<>>

NoSelection ==
    [names |-> <<>>, private |-> 0, command |-> CommandInfo("", None, "", TRUE),
     matches |-> NoMatches]

ensure_table(l) ==
    IF l.table = None
    THEN [l EXCEPT !.table = Some(TableBuilderDefault),
                   !.options = @ \o <<Opt("s", "", "Yes"), Opt("S", "", "Yes"),
                                      Opt("o", "", "Yes"), Opt("H", "", "No"),
                                      Opt("p", "", "No")>>,
                   !.usage_opts = TRUE]
    ELSE l

add_column(l, name, width, default) ==
    [ensure_table(l) EXCEPT !.table = Some(table_add_column(@[1], name, width, default))]

\* TableBuilder has no field to keep the flag in, and Level.lazy_columns is
\* not assigned: the call only makes sure the table exists.
lazy_column_validation(l, lazy) == ensure_table(l)

\* cmd_common without its test for a command of the same name.
is_duplicate_never(commands, name) == FALSE
is_duplicate(commands, name) == \E i \in 1..Len(commands) : commands[i].name = name

\* The Level after the call, and whether the call returned Ok.
cmd_common(l, name, alias, desc, visible) ==
    IF is_duplicate(l.commands, name)
    THEN [ok |-> FALSE, error |-> "duplicate command \"" \o name \o "\"", level |-> l]
    ELSE [ok |-> TRUE, error |-> "",
          level |-> [l EXCEPT !.commands = Append(@, CommandInfo(name, alias, desc, visible))]]

usage_args(l, snippet) == [l EXCEPT !.usage_args = snippet]

optflag(l, short, long) ==
    [l EXCEPT !.usage_opts = TRUE, !.options = Append(@, Opt(short, long, "No"))]

optopt(l, short, long) ==
    [l EXCEPT !.usage_opts = TRUE, !.options = Append(@, Opt(short, long, "Yes"))]

reqopt(l, short, long) ==
    [l EXCEPT !.options_required = Append(@, Pair(short, long)),
              !.usage_opts = TRUE,
              !.options = Append(@, Opt(short, long, "Yes"))]

mutually_exclusive(l, pairs) == [l EXCEPT !.options_mutex = Append(@, pairs)]

\* One row of getopts' option listing.
OptRow(o) ==
    "    " \o (IF o.short # "" THEN "-" \o o.short ELSE "")
           \o (IF o.short # "" /\ o.long # "" THEN ", " ELSE "")
           \o (IF o.long # "" THEN "--" \o o.long ELSE "")
           \o (IF o.hasarg = "Yes" THEN " ARG" ELSE "")

CommandRow(c) ==
    "    " \o PadRight(IF c.alias # None THEN c.name \o " (" \o c.alias[1] \o ")" ELSE c.name, 19)
           \o " " \o c.desc

\* The usage text, as its lines.
gen_usage(l) ==
    LET Visible(c) == c.visible
        shown == SelectSeq(l.commands, Visible)
        cols == IF l.table # None THEN column_names(l.table[1]) ELSE <<>>
    IN <<"Usage:" \o Join([i \in 1..Len(l.names) |-> " " \o l.names[i]], "")
                  \o (IF l.usage_opts THEN " [OPTS]" ELSE "")
                  \o (IF l.commands # <<>> THEN " COMMAND" ELSE "")
                  \o (IF l.usage_args # None THEN " " \o l.usage_args[1] ELSE "")>>
       \o (IF l.commands # <<>>
           THEN <<"", "Commands:">> \o [i \in 1..Len(shown) |-> CommandRow(shown[i])]
           ELSE <<>>)
       \o <<"", "Options:">> \o [i \in 1..Len(l.options) |-> OptRow(l.options[i])]
       \o <<"">>
       \o (IF cols # <<>>
           THEN <<"Columns:">> \o [i \in 1..Len(cols) |-> "    " \o PadRight(cols[i], 19)]
           ELSE <<>>)
       \o (IF l.table # None THEN <<"">> ELSE <<>>)

\* What usage_error() writes to the error stream.
usage_error(l, msg) == gen_usage(l) \o <<"ERROR: " \o msg>>

-----------------------------------------------------------------------------
(* Level::parse and Level::select.  bad_args! ends the process inside the  *)
(* call: such an outcome has exits = TRUE and carries what was written.    *)

\* parse() without its test for --help.
help_requested_never(m) == FALSE
help_requested(m) == opt_present(m, "help")

\* A required option counted as given only under both of its forms.
required_present_both(m, op) ==
    (has_short(op) /\ opt_present(m, op.short)) /\ (has_long(op) /\ opt_present(m, op.long))
required_present(m, op) ==
    LET oksh == has_short(op) /\ opt_present(m, op.short)
        oklo == has_long(op) /\ opt_present(m, op.long)
    IN ~(~oksh /\ ~oklo)

missing_required(reqopts, m) ==
    LET Missing(op) == ~required_present(m, op)
        missing == SelectSeq(reqopts, Missing)
    IN [i \in 1..Len(missing) |-> Display(missing[i])]

conflicts(opts, m) ==
    LET Present(opt) ==
            (opt.short # "" /\ opt_present(m, opt.short))
                \/ (opt.long # "" /\ opt_present(m, opt.long))
        present == SelectSeq(opts, Present)
    IN [i \in 1..Len(present) |-> Display(present[i])]

\* A group counted as in conflict from three given members on.
is_conflict_three(c) == Len(c) > 2
is_conflict(c) == Len(c) > 1

\* The first group, in declaration order, with a conflict (0: none).
first_conflict(mutopts, m) ==
    LET bad == {g \in 1..Len(mutopts) : is_conflict(conflicts(mutopts[g], m))}
    IN IF bad = {} THEN 0 ELSE CHOOSE g \in bad : \A h \in bad : g <= h

\* The table flags applied with -S before -s.
configure_table_desc_first(t, m) ==
    parseable(
        tab_separated(
            show_header(
                sort_from_list_asc(
                    sort_from_list_desc(
                        output_from_list(t, opt_str(m, "o")),
                        opt_str(m, "S")),
                    opt_str(m, "s")),
                ~opt_present(m, "H")),
            opt_present(m, "H")),
        opt_present(m, "p"))

configure_table(t, m) ==
    parseable(
        tab_separated(
            show_header(
                sort_from_list_desc(
                    sort_from_list_asc(
                        output_from_list(t, opt_str(m, "o")),
                        opt_str(m, "s")),
                    opt_str(m, "S")),
                ~opt_present(m, "H")),
            opt_present(m, "H")),
        opt_present(m, "p"))

ParseOutcome(h, exits, out, err, l, m, t) ==
    [how |-> h, exits |-> exits, out |-> out, err |-> err, level |-> l,
     matches |-> m, table |-> t]

\* parse() handing out a copy of the table and leaving the Level's in place.
parse_table_keeping(l, m, table) ==
    IF table # None /\ ~l.lazy_columns /\ missing_column_names(table[1]) # <<>>
    THEN ParseOutcome("columns", TRUE, <<>>,
            usage_error(l, "invalid column names: "
                            \o Join(missing_column_names(table[1]), ", ")),
            l, m, None)
    ELSE ParseOutcome("ok", FALSE, <<>>, <<>>, l, m, table)

\* The table is taken out of the Level before its columns are checked.
parse_table(l, m, table) ==
    IF table # None /\ ~l.lazy_columns /\ missing_column_names(table[1]) # <<>>
    THEN ParseOutcome("columns", TRUE, <<>>,
            usage_error([l EXCEPT !.table = None],
                "invalid column names: " \o Join(missing_column_names(table[1]), ", ")),
            [l EXCEPT !.table = None], m, None)
    ELSE ParseOutcome("ok", FALSE, <<>>, <<>>, [l EXCEPT !.table = None], m, table)

parse_mutex(l, m, g) ==
    IF g # 0
    THEN ParseOutcome("mutex", TRUE, <<>>,
            usage_error(l, Join(conflicts(l.options_mutex[g], m), " and ")
                            \o " are mutually exclusive"),
            l, m, None)
    ELSE parse_table(l, m,
            IF l.table # None THEN Some(configure_table(l.table[1], m)) ELSE None)

parse_required(l, m, missing) ==
    IF missing # <<>>
    THEN ParseOutcome("required", TRUE, <<>>,
            usage_error(l, "required options missing: " \o Join(missing, ", ")),
            l, m, None)
    ELSE parse_mutex(l, m, first_conflict(l.options_mutex, m))

parse_matches(l, tk) ==
    IF ~tk.ok
    THEN ParseOutcome("tokenize", TRUE, <<>>, usage_error(l, tk.fail), l, NoMatches, None)
    ELSE IF help_requested(tk.matches)
    THEN ParseOutcome("help", FALSE, gen_usage(l), <<>>, l, tk.matches, None)
    ELSE parse_required(l, tk.matches, missing_required(l.options_required, tk.matches))

\* Level::parse: its own argument slice if it has one, else the process's.
parse(l, env) ==
    parse_matches(l, Tokenize(l.options, IF l.args # None THEN l.args[1] ELSE env))

\* The loop of select() without its test of the alias.
command_matches_name_only(command, want) == command.name = want
command_matches(command, want) ==
    ~(command.name # want /\ (command.alias = None \/ command.alias[1] # want))

\* The first registered command the loop does not skip (0: none).
chosen(commands, want) ==
    LET hits == {i \in 1..Len(commands) : command_matches(commands[i], want)}
    IN IF hits = {} THEN 0 ELSE CHOOSE i \in hits : \A j \in hits : i <= j

SelectOutcome(h, exits, out, err, l, m, value, error, s) ==
    [how |-> h, exits |-> exits, out |-> out, err |-> err, level |-> l,
     matches |-> m, value |-> value, error |-> error, selection |-> s]

select_command(l, p, c) ==
    IF c # 0
    THEN SelectOutcome("selected", FALSE, <<>>, <<>>, p.level, p.matches, "some", "",
            [names |-> l.names, private |-> l.private, command |-> l.commands[c],
             matches |-> p.matches])
    ELSE SelectOutcome("unknown", FALSE, gen_usage(p.level), <<>>, p.level, p.matches,
            "err", "command \"" \o p.matches.free[1] \o "\" not understood", NoSelection)

select_parsed(l, p) ==
    IF p.how # "ok"
    THEN SelectOutcome(p.how, p.exits, p.out, p.err, p.level, p.matches, "none", "",
            NoSelection)
    ELSE IF p.matches.free = <<>>
    THEN SelectOutcome("nochoice", TRUE, <<>>, usage_error(p.level, "choose a command"),
            p.level, p.matches, "none", "", NoSelection)
    ELSE select_command(l, p, chosen(l.commands, p.matches.free[1]))

\* Level::select
select(l, env) ==
    IF l.commands = <<>>
    THEN SelectOutcome("nocommands", FALSE, <<>>, <<>>, l, NoMatches, "err",
            "no commands provided by consumer", NoSelection)
    ELSE select_parsed(l, parse(l, env))

\* run() passing on the free arguments with the command name left in.
run_args_whole(matches) == matches.free
run_args(matches) == SubSeq(matches.free, 2, Len(matches.free))

\* run() naming the child after the root and the command only.
run_from_root(s) ==
    new_sub(<<s.names[1], s.command.name>>, s.private,
            Some(SubSeq(s.matches.free, 2, Len(s.matches.free))))

\* The Level Selection::run builds for the chosen handler.
run(s) == new_sub(Append(s.names, s.command.name), s.private, Some(run_args(s.matches)))

-----------------------------------------------------------------------------
(* The programs and command lines explored.  Each family is a set of calls *)
(* handlers may make on their Level and a set of arguments the command     *)
(* line is made of.                                                        *)

OptA == Pair("a", "first")
OptS == Pair("", "second")
OptC == Pair("c", "")
OptX == Pair("x", "")

Family(names, aliases, hidden, flags, opts, reqs, groups, cols, lazy, ctx, toks) ==
    [names |-> names, aliases |-> aliases, hidden |-> hidden, flags |-> flags,
     opts |-> opts, reqs |-> reqs, groups |-> groups, cols |-> cols, lazy |-> lazy,
     ctx |-> ctx, toks |-> toks]

\* Sub-commands and aliases.
Commands ==
    Family({"list", "ls"}, {"ls"}, {}, {}, {}, {}, {}, {}, {}, {},
           {"list", "ls", "zz", "--help"})

\* A hidden command, and a context the handlers change.
Hidden ==
    Family({"list"}, {}, {"secret"}, {}, {}, {}, {}, {}, {}, {0, 1},
           {"list", "secret", "--help"})

\* A flag the parent and the sub-command may both declare.
Flags ==
    Family({"list"}, {}, {}, {OptX}, {}, {}, {}, {}, {}, {},
           {"list", "-x", "--help", "--"})

\* Required options, as in examples/trial.rs (do_withreq).
Required ==
    Family({}, {}, {}, {}, {}, {OptA, OptS, OptC}, {}, {}, {}, {},
           {"-av", "--first=v", "--second=v", "-cv", "--help"})

\* Groups of mutually exclusive options, one of them required.
Exclusive ==
    Family({}, {}, {}, {OptC}, {OptS}, {OptA},
           {<<OptS, OptC>>, <<OptC, OptA>>, <<OptA, OptC, OptS>>}, {}, {}, {},
           {"-av", "--second=v", "-c", "--help"})

\* A level with a table.
Tables ==
    Family({}, {}, {}, {}, {}, {}, {}, {"name", "Id"}, {TRUE, FALSE}, {},
           {"-o", "-s", "NAME", "name,bogus", "--help"})

\* A level with a table, given sort lists.
Sorts ==
    Family({}, {}, {}, {}, {}, {}, {}, {"name", "Id"}, {}, {},
           {"-sname", "-Sname", "-SId,name"})

Families == {Commands, Hidden, Flags, Required, Exclusive, Tables, Sorts}

TableFamily(cols, lists, sorts, flags, rows, rowcap) ==
    [cols |-> cols, lists |-> lists, sorts |-> sorts, flags |-> flags, rows |-> rows,
     rowcap |-> rowcap]

\* No table is made (the dispatcher is explored).
NoTable == TableFamily({}, {}, {}, {}, {}, 0)

\* Rows with equal keys, as in tests::basic_data_dups.
Orders ==
    TableFamily({Column("id", 8, TRUE), Column("name", 24, TRUE)}, {},
                {"id", "name", "id,name", "name,id"}, {},
                {("id" :> ValueU(1)) @@ ("name" :> ValueS("zz")),
                 ("id" :> ValueU(1)) @@ ("name" :> ValueS("ls")),
                 ("id" :> ValueU(2)) @@ ("name" :> ValueS("ls")),
                 ("id" :> ValueU(2)) @@ ("name" :> ValueS("zz"))}, 4)

\* An output filter over columns shown and not shown by default.
Selections ==
    TableFamily({Column("name", 16, TRUE), Column("id", 8, FALSE)},
                {"id,name", "name", "NAME"}, {}, {"header", "tabsep"},
                {("id" :> ValueU(1)) @@ ("name" :> ValueS("ls"))}, 1)

\* Byte counts around the unit thresholds.
Bytes ==
    TableFamily({Column("size", 8, TRUE)}, {}, {}, {"parseable"},
                {("size" :> ValueB(b)) :
                    b \in {1023, 1024, 1025, 1536, 1048576, 1048577, 1073741824,
                           1073741825}}, 2)

\* Ages around the bucket thresholds, and those of tests::aged_data.
Ages ==
    TableFamily({Column("age", 8, TRUE)}, {}, {}, {"parseable"},
                {("age" :> ValueAge(secs)) :
                    secs \in {47, 59, 60, 3599, 3600, 48180, 86399, 86400, 86401,
                              277200, 284400, 8553599, 8553600, 31535999, 31536000,
                              34128000}}, 2)

\* Rows that do not populate every column.
Sparse ==
    TableFamily({Column("id", 8, TRUE), Column("name", 24, TRUE)}, {"name"},
                {"id", "id,name"}, {},
                {("name" :> ValueS("ls")),
                 ("id" :> ValueU(1)),
                 ("id" :> ValueU(1)) @@ ("name" :> ValueS("zz"))}, 4)

TableFamilies == {Orders, Selections, Bytes, Ages, Sparse}

Declared(l, p) ==
    \E i \in 1..Len(l.options) : l.options[i].short = p.short /\ l.options[i].long = p.long

Ok == [ok |-> TRUE, error |-> ""]
Err(e) == [ok |-> FALSE, error |-> e]

Init ==
    /\ dom \in Families
    /\ argv \in SeqsUpTo(dom.toks, MaxArgs)
    /\ chain = <<>>
    /\ level = new_sub(<<"trial">>, 0, None)
    /\ pc = "setup"
    /\ res = NoMatches
    /\ sel = NoSelection
    /\ arguments = None
    /\ how = "new"
    /\ asked_lazy = FALSE
    /\ ret = Ok
    /\ stdout = <<>>
    /\ stderr = <<>>
    /\ exit = -1
    /\ tdom = NoTable
    /\ tb = TableBuilderDefault
    /\ tbl = None
    /\ rendered = None

Running(at) == exit = -1 /\ pc = at

\* l.cmd(..)?, l.cmda(..)?, l.hcmd(..)?: the handler returns the error.
Register(r) ==
    /\ level' = r.level
    /\ IF r.ok
       THEN UNCHANGED <<pc, how, ret>>
       ELSE pc' = "done" /\ how' = "duplicate" /\ ret' = Err(r.error)
    /\ UNCHANGED <<tdom, tb, tbl, rendered, dom, argv, chain, res, sel, arguments, asked_lazy, stdout, stderr, exit>>

Cmd ==
    /\ Running("setup")
    /\ \E name \in dom.names : Register(cmd_common(level, name, None, "desc", TRUE))

Cmda ==
    /\ Running("setup")
    /\ \E name \in dom.names, alias \in dom.aliases :
            Register(cmd_common(level, name, Some(alias), "desc", TRUE))

Hcmd ==
    /\ Running("setup")
    /\ \E name \in dom.hidden : Register(cmd_common(level, name, None, "desc", FALSE))

Declare(l) ==
    /\ level' = l
    /\ UNCHANGED <<tdom, tb, tbl, rendered, dom, argv, chain, pc, res, sel, arguments, how, asked_lazy, ret,
                   stdout, stderr, exit>>

Optflag ==
    /\ Running("setup")
    /\ \E p \in dom.flags : ~Declared(level, p) /\ Declare(optflag(level, p.short, p.long))

Optopt ==
    /\ Running("setup")
    /\ \E p \in dom.opts : ~Declared(level, p) /\ Declare(optopt(level, p.short, p.long))

Reqopt ==
    /\ Running("setup")
    /\ \E p \in dom.reqs : ~Declared(level, p) /\ Declare(reqopt(level, p.short, p.long))

\* Matches::opt_present panics on a name that is not declared: the groups
\* name declared options.
MutuallyExclusive ==
    /\ Running("setup")
    /\ Len(level.options_mutex) < MaxGroups
    /\ \E pairs \in dom.groups :
        /\ \A i \in 1..Len(pairs) : Declared(level, pairs[i])
        /\ Declare(mutually_exclusive(level, pairs))

AddColumn ==
    /\ Running("setup")
    /\ IF level.table = None THEN TRUE ELSE Len(level.table[1].outputs) < MaxCols
    /\ \E name \in dom.cols : Declare(add_column(level, name, 16, TRUE))

LazyColumnValidation ==
    /\ Running("setup")
    /\ \E lazy \in dom.lazy :
        /\ level' = lazy_column_validation(level, lazy)
        /\ asked_lazy' = lazy
    /\ UNCHANGED <<tdom, tb, tbl, rendered, dom, argv, chain, pc, res, sel, arguments, how, ret, stdout, stderr, exit>>

ContextMut ==
    /\ Running("setup")
    /\ \E c \in dom.ctx : Declare([level EXCEPT !.private = c])

\* What the arms of args! do with the result of parse().
ArgsArms(p) ==
    /\ level' = p.level
    /\ res' = p.matches
    /\ how' = p.how
    /\ stdout' = stdout \o p.out
    /\ stderr' = stderr \o p.err
    /\ arguments' = p.table
    /\ IF p.exits THEN exit' = 1 /\ UNCHANGED <<pc, ret>>
       ELSE IF p.how = "help" THEN pc' = "done" /\ ret' = Ok /\ UNCHANGED exit
       ELSE pc' = "parsed" /\ UNCHANGED <<ret, exit>>
    /\ UNCHANGED <<tdom, tb, tbl, rendered, dom, argv, chain, sel, asked_lazy>>

\* args!(l)
Args == Running("setup") /\ ArgsArms(parse(level, argv))

\* What the arms of no_args! do: free arguments are an error.
NoArgsArms(p, unexpected) ==
    /\ level' = p.level
    /\ res' = p.matches
    /\ how' = IF unexpected THEN "unexpected" ELSE p.how
    /\ stdout' = stdout \o p.out
    /\ stderr' = stderr \o p.err
            \o (IF unexpected THEN <<"ERROR: unexpected arguments">> ELSE <<>>)
    /\ arguments' = p.table
    /\ IF p.exits \/ unexpected THEN exit' = 1 /\ UNCHANGED <<pc, ret>>
       ELSE IF p.how = "help" THEN pc' = "done" /\ ret' = Ok /\ UNCHANGED exit
       ELSE pc' = "parsed" /\ UNCHANGED <<ret, exit>>
    /\ UNCHANGED <<tdom, tb, tbl, rendered, dom, argv, chain, sel, asked_lazy>>

NoArgsParsed(p) == NoArgsArms(p, p.how = "ok" /\ p.matches.free # <<>>)

\* no_args!(l)
NoArgs == Running("setup") /\ NoArgsParsed(parse(usage_args(level, None), argv))

\* sel! with an Err arm that returns the error to the caller, as `?` would.
SelArmsPropagate(s) ==
    /\ level' = s.level
    /\ res' = s.matches
    /\ how' = s.how
    /\ stdout' = stdout \o s.out
    /\ stderr' = stderr \o s.err
    /\ sel' = s.selection
    /\ IF s.exits THEN exit' = 1 /\ UNCHANGED <<pc, ret>>
       ELSE IF s.value = "err" THEN pc' = "done" /\ ret' = [ok |-> FALSE, error |-> s.error]
                                    /\ UNCHANGED exit
       ELSE IF s.value = "none" THEN pc' = "done" /\ ret' = [ok |-> TRUE, error |-> ""]
                                     /\ UNCHANGED exit
       ELSE pc' = "selected" /\ UNCHANGED <<ret, exit>>
    /\ UNCHANGED <<tdom, tb, tbl, rendered, dom, argv, chain, arguments, asked_lazy>>

\* What the arms of sel! do with the result of select().
SelArms(s) ==
    /\ level' = s.level
    /\ res' = s.matches
    /\ how' = s.how
    /\ stdout' = stdout \o s.out
    /\ stderr' = stderr \o s.err
            \o (IF s.value = "err" THEN <<"ERROR: " \o s.error>> ELSE <<>>)
    /\ sel' = s.selection
    /\ IF s.exits \/ s.value = "err" THEN exit' = 1 /\ UNCHANGED <<pc, ret>>
       ELSE IF s.value = "none" THEN pc' = "done" /\ ret' = Ok /\ UNCHANGED exit
       ELSE pc' = "selected" /\ UNCHANGED <<ret, exit>>
    /\ UNCHANGED <<tdom, tb, tbl, rendered, dom, argv, chain, arguments, asked_lazy>>

\* sel!(l)
Sel == Running("setup") /\ SelArms(select(level, argv))

\* Selection::context_mut
SelContextMut ==
    /\ Running("selected")
    /\ \E c \in dom.ctx : sel' = [sel EXCEPT !.private = c]
    /\ UNCHANGED <<tdom, tb, tbl, rendered, dom, argv, chain, level, pc, res, arguments, how, asked_lazy, ret,
                   stdout, stderr, exit>>

\* selection.run().await: the handler is suspended and the chosen one starts.
Run ==
    /\ Running("selected")
    /\ chain' = Append(chain, sel.names)
    /\ level' = run(sel)
    /\ pc' = "setup"
    /\ res' = NoMatches
    /\ sel' = NoSelection
    /\ arguments' = None
    /\ how' = "new"
    /\ asked_lazy' = FALSE
    /\ UNCHANGED <<tdom, tb, tbl, rendered, dom, argv, ret, stdout, stderr, exit>>

\* The body of a handler that has its arguments runs to its end.
HandlerOk ==
    /\ Running("parsed")
    /\ pc' = "done"
    /\ ret' = Ok
    /\ UNCHANGED <<tdom, tb, tbl, rendered, dom, argv, chain, level, res, sel, arguments, how, asked_lazy,
                   stdout, stderr, exit>>

\* bad_args!(l, ..) in the body of a handler that has its arguments, as in
\* do_check: usage_error() on the Level parse() was called on, then exit(1).
BadArgs ==
    /\ Running("parsed")
    /\ how' = "bad_args"
    /\ stderr' = stderr \o usage_error(level, "specify exactly one word")
    /\ exit' = 1
    /\ UNCHANGED <<tdom, tb, tbl, rendered, dom, argv, chain, level, pc, res, sel, arguments, asked_lazy,
                   ret, stdout>>

\* A handler returns: to the run().await of its caller, which returns the
\* same Result, or from main, which ends the process.
Return ==
    /\ Running("done")
    /\ IF chain # <<>>
       THEN /\ chain' = SubSeq(chain, 1, Len(chain) - 1)
            /\ level' = [Moved EXCEPT !.names = chain[Len(chain)]]
            /\ UNCHANGED <<stderr, exit>>
       ELSE /\ exit' = IF ret.ok THEN 0 ELSE 1
            /\ stderr' = stderr \o (IF ret.ok THEN <<>> ELSE <<"Error: " \o ret.error>>)
            /\ UNCHANGED <<chain, level>>
    /\ UNCHANGED <<tdom, tb, tbl, rendered, dom, argv, pc, res, sel, arguments, how, asked_lazy, ret, stdout>>

-----------------------------------------------------------------------------
(* A table: TableBuilder::default(), its configuration, build(), add_row   *)
(* and output().                                                           *)

TableInit ==
    /\ dom = Commands
    /\ argv = <<>>
    /\ chain = <<>>
    /\ level = new_sub(<<"trial">>, 0, None)
    /\ pc = "setup"
    /\ res = NoMatches
    /\ sel = NoSelection
    /\ arguments = None
    /\ how = "new"
    /\ asked_lazy = FALSE
    /\ ret = Ok
    /\ stdout = <<>>
    /\ stderr = <<>>
    /\ exit = -1
    /\ tdom \in TableFamilies
    /\ tb = TableBuilderDefault
    /\ tbl = None
    /\ rendered = None

Configure(t) ==
    /\ tbl = None
    /\ tb' = t
    /\ UNCHANGED <<tdom, tbl, rendered>>
    /\ UNCHANGED lvars

BuilderAddColumn ==
    /\ Len(tb.outputs) < MaxCols
    /\ \E c \in tdom.cols : Configure(table_add_column(tb, c.name, c.width, c.default))

OutputFromList == \E list \in tdom.lists : Configure(output_from_list(tb, Some(list)))

SortFromListAsc == \E list \in tdom.sorts : Configure(sort_from_list_asc(tb, Some(list)))

SortFromListDesc == \E list \in tdom.sorts : Configure(sort_from_list_desc(tb, Some(list)))

ShowHeader == "header" \in tdom.flags /\ \E show \in BOOLEAN : Configure(show_header(tb, show))

TabSeparated ==
    "tabsep" \in tdom.flags /\ \E tabsep \in BOOLEAN : Configure(tab_separated(tb, tabsep))

Parseable ==
    "parseable" \in tdom.flags /\ \E exact \in BOOLEAN : Configure(parseable(tb, exact))

Build ==
    /\ tbl = None
    /\ tbl' = Some(build(tb))
    /\ UNCHANGED <<tdom, tb, rendered>>
    /\ UNCHANGED lvars

\* A panic of output() ends the use of the table.
Usable == tbl # None /\ (rendered # None => rendered[1].kind = "ok")

\* Each row carries the number of the add_row call that added it.
AddRow ==
    /\ Usable
    /\ Len(tbl[1].data) < MaxRows
    /\ Len(tbl[1].data) < tdom.rowcap
    /\ \E r \in tdom.rows :
            tbl' = Some(add_row(tbl[1], [seq |-> Len(tbl[1].data) + 1, data |-> r]))
    /\ rendered' = None
    /\ UNCHANGED <<tdom, tb>>
    /\ UNCHANGED lvars

\* t.output(): sorts the rows in place and renders them.
Output ==
    /\ Usable
    /\ rendered = None
    /\ \E o \in output(tbl[1]) :
        /\ rendered' = Some(o)
        /\ tbl' = Some([tbl[1] EXCEPT !.data = o.data])
    /\ UNCHANGED <<tdom, tb>>
    /\ UNCHANGED lvars

TableNext ==
    \/ BuilderAddColumn \/ OutputFromList \/ SortFromListAsc \/ SortFromListDesc
    \/ ShowHeader \/ TabSeparated \/ Parseable
    \/ Build \/ AddRow \/ Output

TableSpec == TableInit /\ [][TableNext]_vars

Next ==
    \/ Cmd \/ Cmda \/ Hcmd
    \/ Optflag \/ Optopt \/ Reqopt \/ MutuallyExclusive
    \/ AddColumn \/ LazyColumnValidation \/ ContextMut
    \/ Args \/ NoArgs \/ Sel
    \/ SelContextMut \/ Run
    \/ HandlerOk \/ BadArgs \/ Return

Spec == Init /\ [][Next]_vars

\* A handler is straight-line code run to completion: main blocks on its
\* future (#[tokio::main], examples/trial.rs 71-88) and run() awaits the
\* handler it calls (src/src/lib.rs 637).  So a handler that can parse or
\* select does so, one that has a selection runs it, one that has its
\* arguments finishes its body, and one that is done returns.  Each of
\* these steps is enabled exactly while the handler is at its position and
\* moves the handler on or ends the process, so the weak fairness of the
\* step is that the handler is not at the position for ever.
FairSpec ==
    /\ Spec
    /\ WF_vars(Return)
    /\ []<>~Running("setup")
    /\ []<>~Running("selected")
    /\ []<>~Running("parsed")

-----------------------------------------------------------------------------
(* Properties.                                                             *)

\* The argument slice the Level of the running handler parses.
OwnArgs == IF level.args # None THEN level.args[1] ELSE argv

\* parse() has run on the Level of the running handler and tokenizing
\* succeeded: res holds its Matches.
Tokenized == ~IsMoved(level) /\ res # NoMatches

\* The option declared as (short, long) was given, under either form.
Given(m, short, long) ==
    \E i \in 1..Len(m.opts) :
        m.opts[i].short = short /\ m.opts[i].long = long /\ m.vals[i] # <<>>

CommandNames(commands) == {commands[i].name : i \in 1..Len(commands)}

LastLine(lines) == lines[Len(lines)]

\* C1: registering a command under a name the Level already has fails with
\* a duplicate-command error, before any parsing, and leaves the command
\* list as it was; so the command names of a Level are pairwise distinct.
C1_DuplicateCommandRejected ==
    [][/\ \A i, j \in 1..Len(level'.commands) :
            level'.commands[i].name = level'.commands[j].name => i = j
       /\ (pc = "setup" /\ pc' = "setup" /\ level'.commands # level.commands)
            => /\ Len(level'.commands) = Len(level.commands) + 1
               /\ SubSeq(level'.commands, 1, Len(level.commands)) = level.commands
               /\ LastLine(level'.commands).name \notin CommandNames(level.commands)
       /\ (how # "duplicate" /\ how' = "duplicate")
            => /\ level'.commands = level.commands
               /\ pc' = "done" /\ ~ret'.ok
               /\ \E name \in CommandNames(level.commands) :
                    ret'.error = "duplicate command \"" \o name \o "\""
               /\ res' = NoMatches /\ stdout' = <<>> /\ stderr' = <<>>]_vars

C1_Witness ==
    /\ how = "duplicate"
    /\ Len(level.commands) = 2
    /\ ret.error = "duplicate command \"ls\""

\* C2: with at least one command registered, the first positional argument
\* selects a command exactly when it is the name or the alias of a
\* registered command (hidden ones too), and the command selected is one
\* it names; any other argument selects nothing, starts no handler and ends
\* the process with status 1 and a "not understood" message.
C2_NameOrAliasSelects ==
    (Tokenized /\ how \in {"selected", "unknown"}) =>
        LET want == res.free[1]
            Names(c) == c.name = want \/ c.alias = Some(want)
        IN /\ level.commands # <<>>
           /\ how = "selected" <=> \E i \in 1..Len(level.commands) : Names(level.commands[i])
           /\ how = "selected" =>
                /\ pc = "selected" /\ exit = -1
                /\ \E i \in 1..Len(level.commands) : sel.command = level.commands[i]
                /\ Names(sel.command)
           /\ how = "unknown" =>
                /\ exit = 1 /\ pc = "setup" /\ sel = NoSelection
                /\ LastLine(stderr) = "ERROR: command \"" \o want \o "\" not understood"

C2_Witness ==
    /\ how = "selected"
    /\ sel.command.alias = Some(res.free[1])
    /\ sel.command.name # res.free[1]

\* C3: when the first positional argument is the name of one registered
\* command and the alias of another, the command it is the name of is
\* selected, whatever the order of registration.
C3_NameBeforeAlias ==
    (Tokenized /\ how = "selected"
        /\ \E i, j \in 1..Len(level.commands) :
                /\ i # j
                /\ level.commands[i].name = res.free[1]
                /\ level.commands[j].alias = Some(res.free[1]))
    => sel.command.name = res.free[1]

\* C4: Selection::run gives the handler a Level whose path is the parent's
\* with the command's name appended, whose arguments are the parent's
\* positional arguments after the first, whose context is the one the
\* Selection holds, and which has no commands, no table and only --help.
C4_ChildLevel ==
    [][/\ (pc = "setup" /\ pc' = "selected")
            => sel'.names = level.names /\ sel'.private = level.private
       /\ (pc = "selected" /\ pc' = "selected")
            => sel'.names = sel.names /\ sel'.command = sel.command
       /\ (pc = "selected" /\ pc' = "setup")
            => /\ level'.names = sel.names \o <<sel.command.name>>
               /\ level'.args = Some(Tail(res.free))
               /\ level'.private = sel.private
               /\ level'.commands = <<>>
               /\ level'.table = None
               /\ level'.options = <<Opt("", "help", "No")>>
               /\ level'.options_required = <<>> /\ level'.options_mutex = <<>>
               /\ chain' = Append(chain, sel.names)]_vars

C4_Witness ==
    /\ pc = "setup" /\ chain = << <<"trial">> >>
    /\ argv = <<"ls", "zz", "list">>
    /\ level.names = <<"trial", "list">>
    /\ level.args = Some(<<"zz", "list">>)

\* The argument is an option whose value is the argument after it.
TakesNext(opts, raw) ==
    LET lx == Lex(raw)
        nm == IF lx.kind = "long" THEN lx.name ELSE LastLine(lx.chars)
    IN /\ lx.kind \in {"long", "short"}
       /\ IF lx.kind = "long" THEN lx.attached = None
          ELSE \A j \in 1..Len(lx.chars) :
                    \E i \in 1..Len(opts) :
                        /\ opts[i].short = lx.chars[j]
                        /\ opts[i].hasarg = "Yes" <=> j = Len(lx.chars)
       /\ \E i \in 1..Len(opts) :
            /\ opts[i].hasarg = "Yes"
            /\ IF lx.kind = "long" THEN opts[i].long = nm ELSE opts[i].short = nm

\* Where the free arguments start: at the first argument that is neither
\* an option nor the value of one, or right after "--".
RECURSIVE FirstFree(_, _, _)
FirstFree(opts, args, i) ==
    IF i > Len(args) THEN i
    ELSE IF Lex(args[i]).kind = "free" THEN i
    ELSE IF Lex(args[i]).kind = "end" THEN i + 1
    ELSE IF TakesNext(opts, args[i]) THEN FirstFree(opts, args, i + 2)
    ELSE FirstFree(opts, args, i + 1)

\* The argument names the option o, by a letter or by its long name.
Mentions(raw, o) ==
    LET lx == Lex(raw)
    IN \/ lx.kind = "long" /\ o.long = lx.name
       \/ lx.kind = "short" /\ \E j \in 1..Len(lx.chars) : o.short = lx.chars[j]

\* C5: a level reads options up to its first free argument only: the free
\* arguments it passes on are all the arguments from there on, in order,
\* options among them included, and an option counts as given only if it
\* is written before that point.  So an option written after the name of a
\* sub-command is left to the sub-command, whose arguments are a tail of
\* the command line.
C5_StopAtFirstFree ==
    /\ level.args # None =>
        \E k \in 1..(Len(argv) + 1) : level.args[1] = SubSeq(argv, k, Len(argv))
    /\ Tokenized =>
        LET stop == FirstFree(level.options, OwnArgs, 1)
        IN /\ res.free = SubSeq(OwnArgs, stop, Len(OwnArgs))
           /\ \A i \in 1..Len(res.opts) :
                res.vals[i] # <<>> =>
                    \E k \in 1..(stop - 1) : Mentions(OwnArgs[k], res.opts[i])

C5_Witness ==
    /\ how = "selected"
    /\ argv = <<"list", "-x">>
    /\ Declared(level, OptX)
    /\ ~Given(res, "x", "")
    /\ res.free = <<"list", "-x">>

\* C6: when --help is among the options of a level, parse() prints the
\* usage on standard output and nothing else, whatever the required,
\* exclusive and column checks would have said; nothing is selected, no
\* handler is started, the handler returns Ok and the status is 0.
C6_HelpShortCircuits ==
    /\ (Tokenized /\ Given(res, "", "help")) => how = "help"
    /\ how = "help" =>
        /\ ret.ok /\ pc = "done"
        /\ stderr = <<>> /\ exit \in {-1, 0}
        /\ sel = NoSelection /\ arguments = None
        /\ ~IsMoved(level) => stdout = gen_usage(level)

C6_Witness ==
    /\ how = "help"
    /\ exit = 0
    /\ level.options_required = <<OptA, OptS, OptC>>
    /\ ~Given(res, "a", "first") /\ ~Given(res, "", "second") /\ ~Given(res, "c", "")

\* The required options of the level that were not given, as displayed.
MissingRequired ==
    LET Absent(op) == ~Given(res, op.short, op.long)
        absent == SelectSeq(level.options_required, Absent)
    IN [i \in 1..Len(absent) |-> Display(absent[i])]

\* C7: without --help, parse() stops at the required-option check exactly
\* when some option declared with reqopt was given under neither form, and
\* then the process ends with status 1 and one error naming the missing
\* options, and only them, in declaration order, joined by ", ".
C7_RequiredOptions ==
    (Tokenized /\ ~Given(res, "", "help")) =>
        /\ how = "required" <=> MissingRequired # <<>>
        /\ how = "required" =>
            /\ exit = 1 /\ stdout = <<>>
            /\ stderr = gen_usage(level)
                \o <<"ERROR: required options missing: " \o Join(MissingRequired, ", ")>>

C7_Witness ==
    /\ how = "required"
    /\ level.options_required = <<OptA, OptS, OptC>>
    /\ Given(res, "", "second")
    /\ LastLine(stderr) = "ERROR: required options missing: -a (--first), -c"

\* The members of an exclusive group that were given, as displayed.
PresentOf(group) ==
    LET There(op) == Given(res, op.short, op.long)
        there == SelectSeq(group, There)
    IN [i \in 1..Len(there) |-> Display(there[i])]

\* C8: past the required-option check, parse() stops at the exclusive
\* groups exactly when two or more members of one group were given, and
\* then the process ends with status 1 and an error naming the given
\* members of such a group joined by " and "; the check is not reached
\* while a required option is missing.
C8_MutuallyExclusive ==
    (Tokenized /\ ~Given(res, "", "help")) =>
        /\ how = "mutex" => MissingRequired = <<>>
        /\ MissingRequired = <<>> =>
            (how = "mutex" <=>
                \E g \in 1..Len(level.options_mutex) :
                    Len(PresentOf(level.options_mutex[g])) >= 2)
        /\ how = "mutex" =>
            /\ exit = 1 /\ stdout = <<>>
            /\ \E g \in 1..Len(level.options_mutex) :
                /\ Len(PresentOf(level.options_mutex[g])) >= 2
                /\ stderr = gen_usage(level)
                    \o <<"ERROR: " \o Join(PresentOf(level.options_mutex[g]), " and ")
                            \o " are mutually exclusive">>

C8_Witness ==
    /\ how = "mutex"
    /\ level.options_mutex = << <<OptA, OptC, OptS>> >>
    /\ LastLine(stderr) = "ERROR: -a (--first) and -c are mutually exclusive"

\* C9: on a level with a table, parse() rejects the -o list only while
\* lazy column validation is not enabled: once the handler has called
\* lazy_column_validation(true), parse() accepts any -o list.
C9_LazyColumnValidation ==
    (Tokenized /\ Declared(level, Pair("o", "")) /\ asked_lazy) => how # "columns"

\* C10: every error of the user (tokenizing failure, missing required
\* option, exclusive options, no command, unknown command, invalid column,
\* unexpected arguments under no_args!) ends the process with status 1,
\* the usage of the level followed by one ERROR line on standard error and
\* nothing on standard output.
C10_UsageThenError ==
    how \in {"tokenize", "required", "mutex", "nochoice", "unknown", "columns",
             "unexpected"} =>
        /\ exit = 1
        /\ stdout = <<>>
        /\ stderr = gen_usage(level) \o <<LastLine(stderr)>>

\* C16: add_column is an idempotent append: the declared columns of a
\* level have pairwise distinct names, and the table options are declared
\* once.
C16_AddColumnIdempotent ==
    level.table # None =>
        /\ \A i, j \in 1..Len(level.table[1].outputs) :
                level.table[1].outputs[i].name = level.table[1].outputs[j].name => i = j
        /\ \A i, j \in 1..Len(level.options) :
                (level.options[i].short = level.options[j].short
                    /\ level.options[i].long = level.options[j].long) => i = j

\* C17: without lazy validation, a -s or -S list naming a column that is
\* not declared is rejected by parse(): the table parse() hands back has
\* declared columns only in its sort order.
C17_SortListValidated ==
    (Tokenized /\ how = "ok" /\ arguments # None /\ ~asked_lazy) =>
        (arguments[1].sort_order # None =>
            \A i \in 1..Len(arguments[1].sort_order[1]) :
                \E c \in 1..Len(arguments[1].outputs) :
                    arguments[1].outputs[c].name = arguments[1].sort_order[1][i].column)

\* C19 (as amended): select() on a level without commands fails with "no
\* commands provided by consumer" whatever the arguments are, without
\* parsing them; sel! does not return that failure to the caller: it
\* prints it as one ERROR line on standard error, without usage, and ends
\* the process with status 1.
C19_NoCommandsEndsProcess ==
    /\ how \in {"nochoice", "selected", "unknown"} => level.commands # <<>>
    /\ how = "nocommands" =>
        /\ level.commands = <<>>
        /\ res = NoMatches /\ sel = NoSelection
        /\ exit = 1 /\ pc = "setup" /\ ret.ok
        /\ stdout = <<>>
        /\ stderr = <<"ERROR: no commands provided by consumer">>

C19_Witness ==
    /\ how = "nocommands"
    /\ argv = <<"list", "--help">>
    /\ chain = << <<"trial">> >>

\* C19: the failure of select() on a level without commands travels up the
\* call chain as the Result of the handler; sel! neither prints nor ends
\* the process.
C19_NoCommandsPropagates ==
    how = "nocommands" =>
        /\ pc = "done" /\ ~ret.ok
        /\ ret.error = "no commands provided by consumer"
        /\ stderr = <<>>
        /\ exit = -1

\* The suspended handlers and the running one form a chain of paths, each
\* one name longer than the one before.
PrefixChain ==
    /\ \A i \in 1..Len(chain) :
        /\ Len(chain[i]) = i
        /\ i > 1 => SubSeq(chain[i], 1, i - 1) = chain[i - 1]
    /\ Len(level.names) = Len(chain) + 1
    /\ level.names[1] = "trial"
    /\ chain # <<>> => SubSeq(level.names, 1, Len(chain)) = chain[Len(chain)]

\* C20: one handler runs at a time.  A handler is suspended exactly while
\* the handler it started with run() has not returned, and the paths of the
\* suspended handlers and of the running one are root, root c1, root c1 c2,
\* ... after the commands chosen.
C20_OneHandlerAtATime ==
    /\ []PrefixChain
    /\ [][chain' # chain =>
            \/ /\ pc = "selected" /\ pc' = "setup"
               /\ chain' = Append(chain, level.names)
               /\ level'.names = Append(level.names, sel.command.name)
               /\ \/ sel.command.name = res.free[1]
                  \/ sel.command.alias = Some(res.free[1])
            \/ /\ pc = "done" /\ pc' = "done"
               /\ chain = Append(chain', level'.names)
               /\ ret' = ret /\ exit' = exit]_vars

C20_Witness ==
    /\ Len(chain) = 2
    /\ level.names = <<"trial", "list", "ls">>
    /\ pc = "setup"

-----------------------------------------------------------------------------
(* Properties of Table::output.                                            *)

\* output() returned Ok: its text, line by line.
OutputOk == rendered # None /\ rendered[1].kind = "ok"
Text == rendered[1].text
HeaderLines == IF tbl[1].header THEN 1 ELSE 0

\* The names of the columns to show: the output filter, or else the
\* declared columns shown by default.
ShownNames(t) ==
    IF t.output_filter # None THEN t.output_filter[1]
    ELSE LET ByDefault(c) == c.default
             shown == SelectSeq(t.outputs, ByDefault)
         IN [i \in 1..Len(shown) |-> shown[i].name]

WidthOf(t, n) ==
    t.outputs[CHOOSE i \in 1..Len(t.outputs) :
                /\ t.outputs[i].name = n
                /\ \A j \in 1..(i - 1) : t.outputs[j].name # n].width

\* The line of a row: its values under the shown names, in their order.
LineOf(t, row) ==
    format_line([i \in 1..Len(ShownNames(t)) |-> cell(row.data[ShownNames(t)[i]], t.parseable)],
                [i \in 1..Len(ShownNames(t)) |-> WidthOf(t, ShownNames(t)[i])], t.tabsep)

\* C11: without a sort order, output() keeps the rows in the order of the
\* add_row calls: the i-th data line renders the row added i-th.
C11_InsertionOrder ==
    (OutputOk /\ tbl[1].sort_order = None) =>
        /\ Len(Text) = HeaderLines + Len(tbl[1].data)
        /\ \A i \in 1..Len(tbl[1].data) :
            /\ tbl[1].data[i].seq = i
            /\ Text[HeaderLines + i] = LineOf(tbl[1], tbl[1].data[i])

C11_Witness ==
    /\ OutputOk /\ tbl[1].sort_order = None
    /\ tbl[1].outputs = <<Column("id", 8, TRUE), Column("name", 24, TRUE)>>
    /\ Text = <<"ID       NAME", "2        zz", "1        ls", "1        zz">>

OrderKey(v) == IF v.kind = "S" THEN Rank(v.s) ELSE v.n

\* Row a may stand before row b: the first key they differ on says so, and
\* if they differ on none, a was added first.
RECURSIVE InOrder(_, _, _, _)
InOrder(a, b, order, k) ==
    IF k > Len(order) THEN a.seq < b.seq
    ELSE IF ~Has(a, order[k].column) \/ ~Has(b, order[k].column) THEN TRUE
    ELSE LET x == OrderKey(a.data[order[k].column])
             y == OrderKey(b.data[order[k].column])
         IN IF x = y THEN InOrder(a, b, order, k + 1)
            ELSE IF order[k].ascending THEN x < y ELSE x > y

\* C12: with a sort order, output() puts the rows in lexicographic order of
\* the keys, ascending for a -s list and descending for a -S list, and rows
\* equal on every key stay in the order they were added, in a descending
\* sort too.
C12_StableLexicographicSort ==
    (OutputOk /\ tbl[1].sort_order # None) =>
        /\ Len(Text) = HeaderLines + Len(tbl[1].data)
        /\ \A i \in 1..Len(tbl[1].data) :
            Text[HeaderLines + i] = LineOf(tbl[1], tbl[1].data[i])
        /\ \A i, j \in 1..Len(tbl[1].data) :
            /\ tbl[1].data[i].seq = tbl[1].data[j].seq => i = j
            /\ i < j => InOrder(tbl[1].data[i], tbl[1].data[j], tbl[1].sort_order[1], 1)

C12_Witness ==
    /\ OutputOk
    /\ tbl[1].sort_order = Some(<<SortOrder("id", FALSE)>>)
    /\ tbl[1].outputs = <<Column("id", 8, TRUE), Column("name", 24, TRUE)>>
    /\ Text = <<"ID       NAME", "2        ls", "1        zz", "1        ls">>
    /\ tbl[1].data[1].seq = 3 /\ tbl[1].data[2].seq = 1 /\ tbl[1].data[3].seq = 2

\* C13: the columns rendered are the names of the output filter, in the
\* order of the filter, whatever their default flags and the order of
\* declaration; without a filter they are the declared columns whose
\* default flag is true, in declaration order.
C13_ColumnSelection ==
    OutputOk =>
        /\ Len(Text) = HeaderLines + Len(tbl[1].data)
        /\ \A i \in 1..Len(ShownNames(tbl[1])) :
            /\ \E c \in 1..Len(tbl[1].outputs) :
                    tbl[1].outputs[c].name = ShownNames(tbl[1])[i]
            /\ \A r \in 1..Len(tbl[1].data) : Has(tbl[1].data[r], ShownNames(tbl[1])[i])
        /\ tbl[1].header =>
            Text[1] = format_line(
                [i \in 1..Len(ShownNames(tbl[1])) |-> to_uppercase(ShownNames(tbl[1])[i])],
                [i \in 1..Len(ShownNames(tbl[1])) |-> WidthOf(tbl[1], ShownNames(tbl[1])[i])],
                tbl[1].tabsep)
        /\ \A r \in 1..Len(tbl[1].data) :
            Text[HeaderLines + r] = LineOf(tbl[1], tbl[1].data[r])

C13_Witness ==
    /\ OutputOk
    /\ tbl[1].outputs = <<Column("name", 16, TRUE), Column("id", 8, FALSE)>>
    /\ tbl[1].output_filter = Some(<<"id", "name">>)
    /\ tbl[1].tabsep
    /\ Text = <<"ID\tNAME", "1\tls">>

\* The unit of a byte count, by inclusive thresholds.
InclusiveBytes(b, exact) ==
    IF exact THEN ToStr(b)
    ELSE IF b >= GiB THEN Fixed2(b, GiB) \o "G"
    ELSE IF b >= MiB THEN Fixed2(b, MiB) \o "M"
    ELSE IF b >= KiB THEN Fixed2(b, KiB) \o "K"
    ELSE ToStr(b)

\* C14: a byte count of 1 GiB or more is rendered in G, of 1 MiB or more in
\* M, of 1 KiB or more in K and a smaller one as the integer (1023 ->
\* "1023", 1024 -> "1.00K", 1048576 -> "1.00M", 1073741824 -> "1.00G"); in
\* parseable mode every count is rendered as the integer.
C14_InclusiveByteThresholds ==
    (OutputOk /\ tdom = Bytes /\ Len(tbl[1].outputs) = 1) =>
        \A r \in 1..Len(tbl[1].data) :
            /\ Text[HeaderLines + r]
                    = InclusiveBytes(tbl[1].data[r].data["size"].n, tbl[1].parseable)
            /\ (~tbl[1].parseable /\ tbl[1].data[r].data["size"].n = 1024)
                    => Text[HeaderLines + r] = "1.00K"

\* The ages explored, as output() is to render them.
AgeText(secs) ==
    CASE secs = 47 -> "47s"
      [] secs = 59 -> "59s"
      [] secs = 60 -> " 1m00s"
      [] secs = 3599 -> "59m59s"
      [] secs = 3600 -> " 1h00m"
      [] secs = 48180 -> "13h23m"
      [] secs = 86399 -> "23h59m"
      [] secs = 86400 -> " 1d00h"
      [] secs = 86401 -> " 1d00h"
      [] secs = 277200 -> " 3d05h"
      [] secs = 284400 -> " 3d07h"
      [] secs = 8553599 -> "98d23h"
      [] secs = 8553600 -> " 3M09d"
      [] secs = 31535999 -> "12M04d"
      [] secs = 31536000 -> " 1y00M"
      [] secs = 34128000 -> " 1y01M"

AgeSeconds(secs) ==
    CASE secs = 47 -> "47"
      [] secs = 59 -> "59"
      [] secs = 60 -> "60"
      [] secs = 3599 -> "3599"
      [] secs = 3600 -> "3600"
      [] secs = 48180 -> "48180"
      [] secs = 86399 -> "86399"
      [] secs = 86400 -> "86400"
      [] secs = 86401 -> "86401"
      [] secs = 277200 -> "277200"
      [] secs = 284400 -> "284400"
      [] secs = 8553599 -> "8553599"
      [] secs = 8553600 -> "8553600"
      [] secs = 31535999 -> "31535999"
      [] secs = 31536000 -> "31536000"
      [] secs = 34128000 -> "34128000"

\* C15 (as amended): an age is rendered in one bucket by its whole seconds:
\* years and 30-day months from 365 days, months and days from 99 days,
\* days and hours from 1 day, hours and minutes from 1 hour, minutes and
\* seconds from 1 minute, else seconds; the first number is padded with
\* spaces to width 2 and the second with zeros, so 86401 -> " 1d00h",
\* 284400 -> " 3d07h" (and 277200 -> " 3d05h"), 48180 -> "13h23m",
\* 47 -> "47s"; in parseable mode it is the whole seconds.
C15_AgeBuckets ==
    (OutputOk /\ tdom = Ages /\ Len(tbl[1].outputs) = 1) =>
        \A r \in 1..Len(tbl[1].data) :
            Text[HeaderLines + r] =
                IF tbl[1].parseable THEN AgeSeconds(tbl[1].data[r].data["age"].n)
                ELSE AgeText(tbl[1].data[r].data["age"].n)

C15_Witness ==
    /\ OutputOk /\ tdom = Ages /\ ~tbl[1].parseable
    /\ Len(tbl[1].outputs) = 1
    /\ Len(tbl[1].data) = 2
    /\ tbl[1].data[1].data["age"].n = 277200
    /\ tbl[1].data[2].data["age"].n = 86400
    /\ Text = <<"AGE", " 3d05h", " 1d00h">>

\* C15: as above, with 277200 -> " 3d07h".
C15_AgeBucketsAsClaimed ==
    (OutputOk /\ tdom = Ages /\ Len(tbl[1].outputs) = 1 /\ ~tbl[1].parseable) =>
        \A r \in 1..Len(tbl[1].data) :
            Text[HeaderLines + r] =
                IF tbl[1].data[r].data["age"].n = 277200 THEN " 3d07h"
                ELSE AgeText(tbl[1].data[r].data["age"].n)

\* C18: output() returns an error, and no text, whenever a row lacks the
\* value of a column that is shown or of a column that is a sort key, for any
\* number of rows.
C18_MissingValueIsAnError ==
    (rendered # None
        /\ \E r \in 1..Len(tbl[1].data) :
            \/ \E i \in 1..Len(ShownNames(tbl[1])) :
                    ~Has(tbl[1].data[r], ShownNames(tbl[1])[i])
            \/ /\ tbl[1].sort_order # None
               /\ \E k \in 1..Len(tbl[1].sort_order[1]) :
                    ~Has(tbl[1].data[r], tbl[1].sort_order[1][k].column))
    => rendered[1].kind = "err"

-----------------------------------------------------------------------------
(* Properties of the Level across parse().                                 *)

\* A step in which parse() returned the arguments of the running handler.
ParseReturns == pc = "setup" /\ pc' = "parsed"

\* C21 (as amended): select() consumes the Level, parse() borrows it: after
\* parse() has returned the arguments, the same Level is still there for
\* usage_error() (as bad_args! in do_check uses it), with its names,
\* commands and options as they were; parse() has moved the table schema
\* out of the Level into the arguments it returned, so the Level is left
\* without a table and its usage text without the list of columns.
C21_ParseBorrowsLevel ==
    /\ [][ParseReturns =>
            /\ level' = [level EXCEPT !.table = None, !.usage_args = level'.usage_args]
            /\ level.table = None => arguments' = None
            /\ level.table # None =>
                /\ arguments' # None
                /\ arguments'[1].outputs = level.table[1].outputs]_vars
    /\ [][(how' = "bad_args" /\ how # "bad_args") =>
            /\ pc = "parsed" /\ level' = level /\ level.table = None
            /\ ~IsMoved(level)
            /\ stderr' = stderr \o gen_usage(level) \o <<"ERROR: specify exactly one word">>
            /\ \A i \in 1..Len(stderr') : stderr'[i] # "Columns:"]_vars

C21_Witness ==
    /\ how = "bad_args" /\ exit = 1
    /\ arguments # None /\ Len(arguments[1].outputs) = 2
    /\ level.table = None
    /\ \E i \in 1..Len(level.options) : level.options[i].short = "o"
    /\ stderr[1] = "Usage: trial [OPTS] [ARGS...]"
    /\ LastLine(stderr) = "ERROR: specify exactly one word"

\* C21: once parse() has been performed on a Level nothing more is applied
\* to that Level (no usage_error), and the parse leaves the table schema and
\* the options of the Level as they were.
C21_ParseConsumesLevel ==
    [][/\ ParseReturns => (level'.table = level.table /\ level'.options = level.options)
       /\ how' # "bad_args"]_vars

\* The sort order the table flags given on the command line ask for: the
\* -S list if there is one, else the -s list, else none.
SortAskedFor(args) ==
    IF \E i \in 1..Len(args) : args[i] = "-SId,name"
    THEN Some(<<SortOrder("id", FALSE), SortOrder("name", FALSE)>>)
    ELSE IF \E i \in 1..Len(args) : args[i] = "-Sname"
    THEN Some(<<SortOrder("name", FALSE)>>)
    ELSE IF \E i \in 1..Len(args) : args[i] = "-sname"
    THEN Some(<<SortOrder("name", TRUE)>>)
    ELSE None

\* C22: the -s and -S lists do not combine: parse() applies -s and then
\* -S, each replacing the whole sort order, so with both given the sort
\* order is the -S list, every key descending; with one given it is that
\* list; with neither the table has no sort order.
C22_SortListsReplace ==
    (dom = Sorts /\ pc = "parsed" /\ arguments # None) =>
        arguments[1].sort_order = SortAskedFor(OwnArgs)

C22_Witness ==
    /\ dom = Sorts /\ pc = "parsed" /\ arguments # None
    /\ OwnArgs = <<"-SId,name", "-sname">>
    /\ arguments[1].sort_order = Some(<<SortOrder("id", FALSE), SortOrder("name", FALSE)>>)

-----------------------------------------------------------------------------
(* Termination of the dispatch.                                            *)

\* A step in which run() starts the handler of the selected command.
RunStarts == Len(chain') = Len(chain) + 1

\* C23: dispatch terminates: each run() gives the handler it starts an
\* argument slice strictly shorter than that of its caller, so the handlers
\* suspended in run() are never more than the arguments of the command
\* line, and the process ends (a handler returns to main, or a help or an
\* error exit is taken).
C23_DispatchTerminates ==
    /\ [][RunStarts => (level'.args # None /\ Len(level'.args[1]) < Len(OwnArgs))]_vars
    /\ [](Len(chain) <= Len(argv))
    /\ [](~IsMoved(level) => Len(chain) + Len(OwnArgs) <= Len(argv))
    /\ <>(exit # -1)

C23_Witness ==
    /\ exit # -1
    /\ Len(argv) = 2 /\ Len(chain) = 2
    /\ ~IsMoved(level) /\ OwnArgs = <<>>

====
